---- MODULE Spec2Model ----
(***************************************************************************)
(* Tangent - Word to JPG converter (src/tangent.ts).                       *)
(*                                                                         *)
(* Strings are sequences of one-character strings, so that the regular     *)
(* expression of --resize, parseInt, path.extname, toLowerCase and         *)
(* endsWith are computed character by character.  A path is a sequence of  *)
(* names below the current working directory.  The external programs       *)
(* (which, LibreOffice, pdfinfo, pdftoppm, convert) and the file system    *)
(* calls that can throw are the environment: each outcome they can have    *)
(* is a nondeterministic choice of the action that calls them.             *)
(***************************************************************************)
EXTENDS Integers, Sequences, FiniteSets, TLC

(* ------------------------------ bounds --------------------------------- *)

\* longest argument list of the main specification
MaxArgs == 3
\* most pages the rasterizer writes for one document
MaxPages == 2
\* longest raw --resize value of the resize specification
MaxRaw == 4
\* most entries of one directory of the collector specification
MaxEntries == 3

(* ------------------------------ strings -------------------------------- *)

Digits == {"0", "1", "2", "3", "4", "5", "6", "7", "8", "9"}

DigitVal(c) ==
  CASE c = "0" -> 0 [] c = "1" -> 1 [] c = "2" -> 2 [] c = "3" -> 3
    [] c = "4" -> 4 [] c = "5" -> 5 [] c = "6" -> 6 [] c = "7" -> 7
    [] c = "8" -> 8 [] c = "9" -> 9

\* String.prototype.toLowerCase, on the letters the model uses
LowerChar(c) ==
  CASE c = "D" -> "d" [] c = "O" -> "o" [] c = "C" -> "c" [] c = "X" -> "x"
    [] c = "T" -> "t" [] c = "M" -> "m" [] c = "A" -> "a" [] c = "B" -> "b"
    [] c = "P" -> "p" [] c = "F" -> "f"
    [] OTHER -> c

toLowerCase(s) == [n \in 1..Len(s) |-> LowerChar(s[n])]

startsWith(s, p) == Len(s) >= Len(p) /\ SubSeq(s, 1, Len(p)) = p

endsWith(s, p) == Len(s) >= Len(p) /\ SubSeq(s, Len(s) - Len(p) + 1, Len(s)) = p

AllDigits(s) == \A n \in 1..Len(s) : s[n] \in Digits

\* value of a sequence of decimal digits
RECURSIVE DecimalValue(_)
DecimalValue(s) ==
  IF s = <<>> THEN 0
  ELSE 10 * DecimalValue(SubSeq(s, 1, Len(s) - 1)) + DigitVal(s[Len(s)])

\* the longest prefix of s made of decimal digits
RECURSIVE DigitPrefix(_)
DigitPrefix(s) ==
  IF s = <<>> \/ Head(s) \notin Digits THEN <<>>
  ELSE <<Head(s)>> \o DigitPrefix(Tail(s))

NaN == [nan |-> TRUE, val |-> 0]

Num(n) == [nan |-> FALSE, val |-> n]

\* the value undefined, of args[++i] past the end of the argument list
undefined == <<"undefined">>

\* parseInt(s, 10): optional sign, then the longest digit prefix; NaN without a
\* digit.  parseInt(undefined, 10) is NaN ("undefined" has no digit prefix).
parseInt(s) ==
  LET neg == s # <<>> /\ Head(s) = "-"
      body == IF s # <<>> /\ Head(s) \in {"-", "+"} THEN Tail(s) ELSE s
      ds == DigitPrefix(body)
  IN  IF s = undefined \/ ds = <<>> THEN NaN
      ELSE Num(IF neg THEN 0 - DecimalValue(ds) ELSE DecimalValue(ds))

\* raw.match(/^(\d+)[x×](\d+)$/i): the two groups, or <<>> for null
Separators == {"x", "X", "×"}

ResizeMatch(raw) ==
  LET ps == {p \in 2..(Len(raw) - 1) : /\ raw[p] \in Separators
                                        /\ AllDigits(SubSeq(raw, 1, p - 1))
                                        /\ AllDigits(SubSeq(raw, p + 1, Len(raw)))}
  IN  IF ps = {} THEN <<>>
      ELSE LET p == CHOOSE q \in ps : TRUE
           IN  <<SubSeq(raw, 1, p - 1), SubSeq(raw, p + 1, Len(raw))>>

\* path.extname(name): from the last dot to the end; empty when there is no
\* dot or the only dot is the first character
extname(name) ==
  LET dots == {n \in 1..Len(name) : name[n] = "."}
  IN  IF dots = {} THEN <<>>
      ELSE LET d == CHOOSE n \in dots : \A m \in dots : m <= n
           IN  IF d = 1 THEN <<>> ELSE SubSeq(name, d, Len(name))

\* the allow-list of collectWordFiles
extensions == {<<".", "d", "o", "c", "x">>, <<".", "d", "o", "t", "m">>}

\* variant of IsWordName that compares the extension as written
IsWordNameCaseSensitive(name) == extname(name) \in extensions

\* extensions.includes(path.extname(name).toLowerCase())

IsWordName(name) == toLowerCase(extname(name)) \in extensions

\* path.basename(filePath, path.extname(filePath))
basenameOf(filePath) ==
  LET name == filePath[Len(filePath)]
  IN  SubSeq(name, 1, Len(name) - Len(extname(name)))

(* ------------------------------ tokens --------------------------------- *)

Str_h == <<"-", "h">>
Str_help == <<"-", "-", "h", "e", "l", "p">>
Str_i == <<"-", "i">>
Str_input == <<"-", "-", "i", "n", "p", "u", "t">>
Str_o == <<"-", "o">>
Str_output == <<"-", "-", "o", "u", "t", "p", "u", "t">>
Str_d == <<"-", "d">>
Str_dpi == <<"-", "-", "d", "p", "i">>
Str_q == <<"-", "q">>
Str_quality == <<"-", "-", "q", "u", "a", "l", "i", "t", "y">>
Str_s == <<"-", "s">>
Str_resize == <<"-", "-", "r", "e", "s", "i", "z", "e">>
Str_r == <<"-", "r">>
Str_recursive == <<"-", "-", "r", "e", "c", "u", "r", "s", "i", "v", "e">>

HelpFlags == {Str_h, Str_help}
InputFlags == {Str_i, Str_input}
OutputFlags == {Str_o, Str_output}
DpiFlags == {Str_d, Str_dpi}
QualityFlags == {Str_q, Str_quality}
ResizeFlags == {Str_s, Str_resize}
RecursiveFlags == {Str_r, Str_recursive}
AllFlags ==
  HelpFlags \cup InputFlags \cup OutputFlags \cup DpiFlags \cup QualityFlags
    \cup ResizeFlags \cup RecursiveFlags

(* ---------------------------- file system ------------------------------ *)

File(name) == [name |-> name, kind |-> "file", children |-> <<>>]
Dir(name, listing) == [name |-> name, kind |-> "dir", children |-> listing]
\* a symbolic link, socket or device: neither isFile() nor isDirectory()
Other(name) == [name |-> name, kind |-> "other", children |-> <<>>]

Name_notes == <<"n", "o", "t", "e", "s", ".", "t", "x", "t">>
Name_docs == <<"d", "o", "c", "s">>
Name_more == <<"m", "o", "r", "e">>
Name_Adocx == <<"A", ".", "d", "o", "c", "x">>
Name_ADOTM == <<"A", ".", "D", "O", "T", "M">>
Name_2x3 == <<"2", "x", "3">>
Name_output == <<"o", "u", "t", "p", "u", "t">>

\* the current working directory of the main specification, each directory
\* in the order readdirSync lists it:
\*   notes.txt   docs/A.docx   docs/more/A.DOTM
CwdTree ==
  << File(Name_notes),
     Dir(Name_docs, << File(Name_Adocx), Dir(Name_more, << File(Name_ADOTM) >>) >>) >>

\* the entries of listing called name
Named(listing, name) == {n \in 1..Len(listing) : listing[n].name = name}

\* fs.statSync / fs.existsSync of a path below the directory listed by tree:
\* "dir", "file", "other", or "none" when nothing is there
RECURSIVE statKind(_, _)
statKind(listing, p) ==
  IF p = <<>> THEN "dir"
  ELSE IF Named(listing, Head(p)) = {} THEN "none"
  ELSE LET e == listing[CHOOSE n \in Named(listing, Head(p)) : TRUE]
       IN  IF Len(p) = 1 THEN e.kind
           ELSE IF e.kind = "dir" THEN statKind(e.children, Tail(p))
           ELSE "none"

\* scanDir of collectWordFiles over the listing of directory dir
RECURSIVE scanDir(_, _, _)
scanDir(dir, entries, recursive) ==
  IF entries = <<>> THEN <<>>
  ELSE LET entry == Head(entries)
           fullPath == dir \o <<entry.name>>
           found == IF entry.kind = "dir" /\ recursive
                      THEN scanDir(fullPath, entry.children, recursive)
                    ELSE IF entry.kind = "file" /\ IsWordName(entry.name)
                      THEN <<fullPath>>
                    ELSE <<>>
       IN  found \o scanDir(dir, Tail(entries), recursive)

\* the listing of the directory at path p
RECURSIVE listingAt(_, _)
listingAt(listing, p) ==
  IF p = <<>> THEN listing
  ELSE listingAt(listing[CHOOSE n \in Named(listing, Head(p)) : TRUE].children, Tail(p))

(* ------------------------------- state --------------------------------- *)

VARIABLES
  pc,            \* where the process is
  exitCode,      \* -1 while running, else the code the process ended with
  exitReason,    \* which statement ended the process
  args, i,       \* parseArgs: the argument list and the loop index (from 1)
  config,        \* the Config being built, then used
  tree,          \* listing of the input root (the working directory)
  files, fi,     \* main: the collected files and the loop index (from 1)
  results, successCount, errorCount,
  outDirMade,    \* main's mkdirSync(config.outputDir) has succeeded
  subDirs,       \* base names whose output subdirectory convertFile created
  jpgs,          \* base name -> page numbers of the .jpg files of its subdirectory
  tmpDirs,       \* the scratch directories that exist
  nextTmp,       \* mkdtempSync's fresh suffix
  tmpDir,        \* convertFile: its scratch directory, 0 before mkdtempSync
  scratch,       \* listing of tmpDir, in readdirSync order
  actualPdf, pageCount, outputFiles, resizeAt, err,
  result,        \* convertFile's return value
  handed,        \* the file the last rasterizer invocation was given
  written,       \* pages the rasterizer wrote for the current document
  produced,      \* <<base name, page>> of every JPEG the rasterizer wrote
  spawned,       \* the conversion tools invoked so far
  stale,         \* jpgs as the run found it
  rmFailed       \* the scratch directories whose rmSync threw

vars ==
  << pc, exitCode, exitReason, args, i, config, tree, files, fi, results,
     successCount, errorCount, outDirMade, subDirs, jpgs, tmpDirs, nextTmp,
     tmpDir, scratch, actualPdf, pageCount, outputFiles, resizeAt, err, result,
     handed, written, produced, spawned, stale, rmFailed >>

parseVars == << args, i, config >>
mainVars == << files, fi, results, successCount, errorCount >>
fsVars == << outDirMade, subDirs, jpgs, tmpDirs, nextTmp >>
cfVars ==
  << tmpDir, scratch, actualPdf, pageCount, outputFiles, resizeAt, err, result >>
logVars == << handed, written, produced, spawned >>

DefaultDpi == 150
DefaultQuality == 90

NoResize == [on |-> FALSE, width |-> 0, height |-> 0]

DefaultConfig ==
  [ inputPath |-> <<>>,              \* process.cwd()
    outputDir |-> <<Name_output>>,   \* path.join(process.cwd(), "output")
    dpi |-> Num(DefaultDpi),
    quality |-> Num(DefaultQuality),
    resize |-> NoResize,
    recursive |-> FALSE ]

NoResult == [source |-> <<>>, pages |-> 0, outputFiles |-> <<>>, error |-> ""]

Range(f) == {f[n] : n \in DOMAIN f}

\* the base names of the Word files below the working directory
WorldBaseNames == {basenameOf(f) : f \in Range(scanDir(<<>>, CwdTree, TRUE))}

\* what an earlier run may have left in an output subdirectory: nothing, or
\* the pages of a longer document
StaleSets == {{}, 1..(MaxPages + 1)}

(* ------------------------------- Init ---------------------------------- *)

Tokens ==
  { Str_h, Str_i, Str_o, Str_d, Str_q, Str_s, Str_r,
    Name_2x3, Name_docs, Name_notes }

ArgLists == UNION {[1..n -> Tokens] : n \in 0..MaxArgs}

InitIdle ==
  /\ exitCode = -1
  /\ exitReason = ""
  /\ config = DefaultConfig
  /\ files = <<>>
  /\ fi = 0
  /\ results = <<>>
  /\ successCount = 0
  /\ errorCount = 0
  /\ outDirMade = FALSE
  /\ subDirs = {}
  /\ tmpDirs = {}
  /\ nextTmp = 1
  /\ tmpDir = 0
  /\ scratch = <<>>
  /\ actualPdf = <<>>
  /\ pageCount = 1
  /\ outputFiles = <<>>
  /\ resizeAt = 0
  /\ err = ""
  /\ result = NoResult
  /\ handed = <<>>
  /\ written = {}
  /\ produced = {}
  /\ spawned = {}
  /\ rmFailed = {}

Init ==
  /\ pc = "parseArgs"
  /\ args \in ArgLists
  /\ i = 1
  /\ tree = CwdTree
  /\ jpgs \in [WorldBaseNames -> StaleSets]
  /\ stale = jpgs
  /\ InitIdle

(* ------------------------------ exits ---------------------------------- *)

\* process.exit(code)
Exit(code, reason) ==
  /\ pc' = "exited"
  /\ exitCode' = code
  /\ exitReason' = reason

\* an exception nobody catches rejects main(): main().catch prints
\* "Unexpected error" and calls process.exit(1)
Crash(reason) == Exit(1, reason)

(* ----------------------------- parseArgs ------------------------------- *)

\* args[n], undefined past the end
ArgAt(n) == IF n <= Len(args) THEN args[n] ELSE undefined

\* path.resolve(token) for a token without a separator
resolve(token) == IF token = <<>> THEN <<>> ELSE <<token>>

InParse == pc = "parseArgs" /\ i <= Len(args)

ParseHelp ==
  /\ InParse
  /\ args[i] \in HelpFlags
  /\ Exit(0, "help")
  /\ UNCHANGED << parseVars, tree, stale, rmFailed, mainVars, fsVars, cfVars, logVars >>

\* a flag whose value goes through path.resolve, which throws on undefined
ParsePath(flags, field) ==
  /\ InParse
  /\ args[i] \in flags
  /\ IF ArgAt(i + 1) = undefined
       THEN /\ Crash("parseArgs threw")
            /\ UNCHANGED parseVars
       ELSE /\ config' = [config EXCEPT ![field] = resolve(ArgAt(i + 1))]
            /\ i' = i + 2
            /\ UNCHANGED << pc, exitCode, exitReason, args >>
  /\ UNCHANGED << tree, stale, rmFailed, mainVars, fsVars, cfVars, logVars >>

ParseInput == ParsePath(InputFlags, "inputPath")

ParseOutput == ParsePath(OutputFlags, "outputDir")

\* a flag whose value goes through parseInt
ParseNumber(flags, field) ==
  /\ InParse
  /\ args[i] \in flags
  /\ config' = [config EXCEPT ![field] = parseInt(ArgAt(i + 1))]
  /\ i' = i + 2
  /\ UNCHANGED << pc, exitCode, exitReason, args, tree, stale, rmFailed, mainVars, fsVars, cfVars,
                  logVars >>

ParseDpi == ParseNumber(DpiFlags, "dpi")

ParseQuality == ParseNumber(QualityFlags, "quality")

\* the Config.resize of a raw value the pattern matched
ResizeOf(match) ==
  [on |-> TRUE, width |-> parseInt(match[1]).val, height |-> parseInt(match[2]).val]

ParseResize ==
  /\ InParse
  /\ args[i] \in ResizeFlags
  /\ LET raw == ArgAt(i + 1)
         match == ResizeMatch(raw)
     IN  IF raw = undefined
           THEN /\ Crash("parseArgs threw")
                /\ UNCHANGED parseVars
         ELSE IF match = <<>>
           THEN /\ Exit(1, "invalid resize")
                /\ UNCHANGED parseVars
         ELSE /\ config' = [config EXCEPT !.resize = ResizeOf(match)]
              /\ i' = i + 2
              /\ UNCHANGED << pc, exitCode, exitReason, args >>
  /\ UNCHANGED << tree, stale, rmFailed, mainVars, fsVars, cfVars, logVars >>

ParseRecursive ==
  /\ InParse
  /\ args[i] \in RecursiveFlags
  /\ config' = [config EXCEPT !.recursive = TRUE]
  /\ i' = i + 1
  /\ UNCHANGED << pc, exitCode, exitReason, args, tree, stale, rmFailed, mainVars, fsVars, cfVars,
                  logVars >>

\* default: a token that does not start with "-" is the input path
ParsePositional ==
  /\ InParse
  /\ args[i] \notin AllFlags
  /\ config' = IF startsWith(args[i], <<"-">>) THEN config
               ELSE [config EXCEPT !.inputPath = resolve(args[i])]
  /\ i' = i + 1
  /\ UNCHANGED << pc, exitCode, exitReason, args, tree, stale, rmFailed, mainVars, fsVars, cfVars,
                  logVars >>

\* return config: the locals of parseArgs are gone
ParseReturn ==
  /\ pc = "parseArgs"
  /\ i > Len(args)
  /\ pc' = "checkDependencies"
  /\ args' = <<>>
  /\ i' = 0
  /\ UNCHANGED << exitCode, exitReason, config, tree, stale, rmFailed, mainVars, fsVars, cfVars,
                  logVars >>

parseArgs ==
  \/ ParseHelp
  \/ ParseInput
  \/ ParseOutput
  \/ ParseDpi
  \/ ParseQuality
  \/ ParseResize
  \/ ParseRecursive
  \/ ParsePositional
  \/ ParseReturn

(* -------------------------- checkDependencies -------------------------- *)

\* what the host has: the two macOS bundle paths, and the programs on PATH
Hosts ==
  [ bundle : BOOLEAN, homeBundle : BOOLEAN, libreoffice : BOOLEAN,
    soffice : BOOLEAN, pdftoppm : BOOLEAN, convert : BOOLEAN ]

\* the path of the LibreOffice binary, "" when not found
resolveLibreOffice(host) ==
  IF host.bundle THEN "/Applications/LibreOffice.app/Contents/MacOS/soffice"
  ELSE IF host.homeBundle THEN "~/Applications/LibreOffice.app/Contents/MacOS/soffice"
  ELSE IF host.libreoffice THEN "/usr/bin/libreoffice"
  ELSE IF host.soffice THEN "/usr/bin/soffice"
  ELSE ""

\* "" when every required program is there, else the missing one
MissingDependency(host, needsResize) ==
  IF resolveLibreOffice(host) = "" THEN "LibreOffice"
  ELSE IF ~host.pdftoppm THEN "pdftoppm"
  ELSE IF needsResize /\ ~host.convert THEN "convert"
  ELSE ""

checkDependencies ==
  /\ pc = "checkDependencies"
  /\ \E host \in Hosts :
       LET missing == MissingDependency(host, config.resize.on)
       IN  IF missing # ""
             THEN Exit(1, missing)
             ELSE /\ pc' = "existsSync"
                  /\ UNCHANGED << exitCode, exitReason >>
  /\ UNCHANGED << parseVars, tree, stale, rmFailed, mainVars, fsVars, cfVars, logVars >>

(* --------------------------- collectWordFiles -------------------------- *)

\* main: if (!fs.existsSync(config.inputPath)) process.exit(1)
ValidateInputPath ==
  /\ pc = "existsSync"
  /\ IF statKind(tree, config.inputPath) = "none"
       THEN Exit(1, "input path not found")
       ELSE /\ pc' = "collectWordFiles"
            /\ UNCHANGED << exitCode, exitReason >>
  /\ UNCHANGED << parseVars, tree, stale, rmFailed, mainVars, fsVars, cfVars, logVars >>

\* what collectWordFiles does for an input path that exists: the list it
\* returns, or the exit of a file that is no Word document
collectWordFiles(listing, inputPath, recursive) ==
  IF statKind(listing, inputPath) = "file"
    THEN IF IsWordName(inputPath[Len(inputPath)])
           THEN [exit |-> FALSE, files |-> <<inputPath>>]
           ELSE [exit |-> TRUE, files |-> <<>>]
    ELSE [exit |-> FALSE,
          files |-> scanDir(inputPath, listingAt(listing, inputPath), recursive)]

\* a directory cannot be read (EACCES): readdirSync throws out of main
CollectThrows ==
  /\ pc = "collectWordFiles"
  /\ statKind(tree, config.inputPath) # "file"
  /\ Crash("collectWordFiles threw")
  /\ UNCHANGED << parseVars, tree, stale, rmFailed, mainVars, fsVars, cfVars, logVars >>

CollectWordFiles ==
  /\ pc = "collectWordFiles"
  /\ LET got == collectWordFiles(tree, config.inputPath, config.recursive)
     IN  IF got.exit
           THEN /\ Exit(1, "not a Word document")
                /\ UNCHANGED files
           ELSE /\ files' = got.files
                /\ pc' = "filesFound"
                /\ UNCHANGED << exitCode, exitReason >>
  /\ UNCHANGED << parseVars, tree, stale, rmFailed, fi, results, successCount, errorCount, fsVars,
                  cfVars, logVars >>

\* variant of NoFilesFound that makes the output directory before the test
NoFilesFoundAfterMkdir ==
  /\ pc = "filesFound"
  /\ outDirMade' = TRUE
  /\ IF Len(files) = 0
       THEN Exit(0, "no Word files")
       ELSE /\ pc' = "mkdirSync"
            /\ UNCHANGED << exitCode, exitReason >>
  /\ UNCHANGED << parseVars, tree, stale, rmFailed, mainVars, subDirs, jpgs, tmpDirs,
                  nextTmp, cfVars, logVars >>

\* main: if (files.length === 0) process.exit(0)
NoFilesFound ==
  /\ pc = "filesFound"
  /\ IF Len(files) = 0
       THEN Exit(0, "no Word files")
       ELSE /\ pc' = "mkdirSync"
            /\ UNCHANGED << exitCode, exitReason >>
  /\ UNCHANGED << parseVars, tree, stale, rmFailed, mainVars, fsVars, cfVars, logVars >>

\* main: fs.mkdirSync(config.outputDir, { recursive: true }), which throws
\* when the directory cannot be made
CreateOutputDir ==
  /\ pc = "mkdirSync"
  /\ \/ /\ outDirMade' = TRUE
        /\ pc' = "loop"
        /\ fi' = 1
        /\ UNCHANGED << exitCode, exitReason >>
     \/ /\ Crash("mkdirSync threw")
        /\ UNCHANGED << outDirMade, fi >>
  /\ UNCHANGED << parseVars, tree, stale, rmFailed, files, results, successCount, errorCount,
                  subDirs, jpgs, tmpDirs, nextTmp, cfVars, logVars >>

(* ------------------------------ convertFile ---------------------------- *)

Ext_pdf == <<".", "p", "d", "f">>
Name_outpdf == <<"o", "u", "t", ".", "p", "d", "f">>
Name_lock == <<".", "l", "o", "c", "k">>

\* the document main is converting
filePath == files[fi]
basename == basenameOf(filePath)

\* path.join(tmpDir, `${basename}.pdf`), as the name inside tmpDir
pdfFile == basename \o Ext_pdf

\* the sequences without repetition over the set S
Listings(S) ==
  UNION {{l \in [1..n -> S] : \A a, b \in 1..n : a # b => l[a] # l[b]} :
           n \in 0..Cardinality(S)}

\* what LibreOffice can leave in the scratch directory, in the order
\* readdirSync will list it: the expected file, a differently named PDF, a
\* lock file, or any of them missing
ScratchListings == Listings({pdfFile, Name_outpdf, Name_lock})

IsPdf(f) == endsWith(f, Ext_pdf)

\* list.filter((f) => f.endsWith(".pdf")), in order
RECURSIVE FilterPdf(_)
FilterPdf(list) ==
  IF list = <<>> THEN <<>>
  ELSE (IF IsPdf(Head(list)) THEN <<Head(list)>> ELSE <<>>) \o FilterPdf(Tail(list))

\* the page numbers of a set, ascending: the .sort() of the file names
\* <basename>_page-<N>.jpg, which orders them by N while N has one digit
RECURSIVE Sorted(_)
Sorted(S) ==
  IF S = {} THEN <<>>
  ELSE LET m == CHOOSE x \in S : \A y \in S : x <= y
       IN  <<m>> \o Sorted(S \ {m})

\* throw inside the try block: the catch clause is next
Throw(message) ==
  /\ err' = message
  /\ pc' = "catch"

\* main: const result = convertFile(file, ...), entered at its first statement
CallConvertFile ==
  /\ pc = "loop"
  /\ fi <= Len(files)
  /\ pc' = "cf_mkdirSync"
  /\ UNCHANGED << exitCode, exitReason, parseVars, tree, stale, rmFailed, mainVars, fsVars, cfVars,
                  logVars >>

\* fs.mkdirSync(fileOutputDir, { recursive: true }), outside the try block
ConvMkdir ==
  /\ pc = "cf_mkdirSync"
  /\ \/ /\ subDirs' = subDirs \cup {basename}
        /\ pc' = "cf_mkdtempSync"
        /\ UNCHANGED << exitCode, exitReason >>
     \/ /\ Crash("convertFile mkdirSync threw")
        /\ UNCHANGED subDirs
  /\ UNCHANGED << parseVars, tree, stale, rmFailed, mainVars, outDirMade, jpgs, tmpDirs, nextTmp,
                  cfVars, logVars >>

\* const tmpDir = fs.mkdtempSync(...), outside the try block
ConvMkdtemp ==
  /\ pc = "cf_mkdtempSync"
  /\ \/ /\ tmpDir' = nextTmp
        /\ tmpDirs' = tmpDirs \cup {nextTmp}
        /\ nextTmp' = nextTmp + 1
        /\ pc' = "cf_libreoffice"
        /\ UNCHANGED << exitCode, exitReason >>
     \/ /\ Crash("mkdtempSync threw")
        /\ UNCHANGED << tmpDir, tmpDirs, nextTmp >>
  /\ UNCHANGED << parseVars, tree, stale, rmFailed, mainVars, outDirMade, subDirs, jpgs, scratch,
                  actualPdf, pageCount, outputFiles, resizeAt, err, result, logVars >>

\* Step 1: DOCX -> PDF via LibreOffice
ConvLibreOffice ==
  /\ pc = "cf_libreoffice"
  /\ spawned' = spawned \cup {"libreoffice"}
  /\ \/ /\ Throw("LibreOffice error")
        /\ UNCHANGED scratch
     \/ /\ scratch' \in ScratchListings
        /\ pc' = "cf_locate"
        /\ UNCHANGED err
  /\ UNCHANGED << exitCode, exitReason, parseVars, tree, stale, rmFailed, mainVars, fsVars, tmpDir,
                  actualPdf, pageCount, outputFiles, resizeAt, result, handed,
                  written, produced >>

\* const actualPdf = fs.readdirSync(tmpDir).filter(...).map(...)[0]
FirstPdf(listing) == FilterPdf(listing)[1]

\* Locate the PDF file
ConvLocatePdf ==
  /\ pc = "cf_locate"
  /\ LET pdfs == FilterPdf(scratch)
     IN  IF pdfFile \notin Range(scratch) /\ Len(pdfs) = 0
           THEN /\ Throw("No PDF file found after LibreOffice conversion.")
                /\ UNCHANGED actualPdf
           ELSE /\ actualPdf' = FirstPdf(scratch)
                /\ pc' = "cf_pdfinfo"
                /\ UNCHANGED err
  /\ UNCHANGED << exitCode, exitReason, parseVars, tree, stale, rmFailed, mainVars, fsVars, tmpDir,
                  scratch, pageCount, outputFiles, resizeAt, result, logVars >>

\* Step 2: Determine page count; stays 1 when pdfinfo fails
ConvPageCount ==
  /\ pc = "cf_pdfinfo"
  /\ spawned' = spawned \cup {"identify", "pdfinfo"}
  /\ pageCount' \in 1..(MaxPages + 1)
  /\ pc' = "cf_pdftoppm"
  /\ UNCHANGED << exitCode, exitReason, parseVars, tree, stale, rmFailed, mainVars, fsVars, tmpDir,
                  scratch, actualPdf, outputFiles, resizeAt, err, result, handed,
                  written, produced >>

\* Step 3: PDF -> JPG via pdftoppm, which writes <prefix>-<N>.jpg for the
\* pages it gets to, and may fail after some
ConvPdftoppm ==
  /\ pc = "cf_pdftoppm"
  /\ spawned' = spawned \cup {"pdftoppm"}
  /\ handed' = actualPdf
  /\ \E n \in 0..MaxPages :
       /\ jpgs' = [jpgs EXCEPT ![basename] = @ \cup 1..n]
       /\ written' = 1..n
       /\ produced' = produced \cup {<<basename, page>> : page \in 1..n}
  /\ \/ /\ Throw("pdftoppm error")
     \/ /\ pc' = "cf_readdirSync"
        /\ UNCHANGED err
  /\ UNCHANGED << exitCode, exitReason, parseVars, tree, stale, rmFailed, mainVars, outDirMade,
                  subDirs, tmpDirs, nextTmp, tmpDir, scratch, actualPdf, pageCount,
                  outputFiles, resizeAt, result >>

\* variant of ListJpgs that misses the last file
ListJpgsButLast(pages) ==
  IF pages = {} THEN <<>>
  ELSE Sorted(pages \ {CHOOSE x \in pages : \A y \in pages : y <= x})

\* the .jpg files of the output subdirectory, sorted
ListJpgs(pages) == Sorted(pages)

\* Collect output files; readdirSync is inside the try block
ConvCollect ==
  /\ pc = "cf_readdirSync"
  /\ \/ /\ outputFiles' = ListJpgs(jpgs[basename])
        /\ resizeAt' = 1
        /\ pc' = IF config.resize.on THEN "cf_resize" ELSE "cf_return"
        /\ UNCHANGED err
     \/ /\ Throw("EACCES: permission denied, scandir")
        /\ UNCHANGED << outputFiles, resizeAt >>
  /\ UNCHANGED << exitCode, exitReason, parseVars, tree, stale, rmFailed, mainVars, fsVars, tmpDir,
                  scratch, actualPdf, pageCount, result, logVars >>

\* Step 4 (optional): Resize via ImageMagick, one invocation per file
ConvResize ==
  /\ pc = "cf_resize"
  /\ IF resizeAt > Len(outputFiles)
       THEN /\ pc' = "cf_return"
            /\ UNCHANGED << err, resizeAt, spawned >>
       ELSE /\ spawned' = spawned \cup {"convert"}
            /\ \/ /\ resizeAt' = resizeAt + 1
                  /\ UNCHANGED << pc, err >>
               \/ /\ Throw("ImageMagick resize error")
                  /\ UNCHANGED resizeAt
  /\ UNCHANGED << exitCode, exitReason, parseVars, tree, stale, rmFailed, mainVars, fsVars, tmpDir,
                  scratch, actualPdf, pageCount, outputFiles, result, handed,
                  written, produced >>

\* return { source, pages: outputFiles.length, outputFiles }
SuccessResult(source, list) ==
  [source |-> source, pages |-> Len(list), outputFiles |-> list, error |-> ""]

\* variant of ErrorResult that drops the message
ErrorResultWithoutMessage(source, message) ==
  [source |-> source, pages |-> 0, outputFiles |-> <<>>, error |-> ""]

\* catch (err): return { source, pages: 0, outputFiles: [], error }
ErrorResult(source, message) ==
  [source |-> source, pages |-> 0, outputFiles |-> <<>>, error |-> message]

ConvReturn ==
  /\ pc = "cf_return"
  /\ result' = SuccessResult(filePath, outputFiles)
  /\ pc' = "finally"
  /\ UNCHANGED << exitCode, exitReason, parseVars, tree, stale, rmFailed, mainVars, fsVars, tmpDir,
                  scratch, actualPdf, pageCount, outputFiles, resizeAt, err, logVars >>

ConvCatch ==
  /\ pc = "catch"
  /\ result' = ErrorResult(filePath, err)
  /\ pc' = "finally"
  /\ UNCHANGED << exitCode, exitReason, parseVars, tree, stale, rmFailed, mainVars, fsVars, tmpDir,
                  scratch, actualPdf, pageCount, outputFiles, resizeAt, err, logVars >>

\* variant of Removed in which rmSync returns without removing anything
RemovedNothing(dirs, dir) == dirs

\* the scratch directories left when rmSync has removed dir
Removed(dirs, dir) == dirs \ {dir}

\* finally: fs.rmSync(tmpDir, { recursive: true, force: true }), an error of
\* which is caught and ignored; then convertFile is left
ConvFinally ==
  /\ pc = "finally"
  /\ \/ /\ tmpDirs' = Removed(tmpDirs, tmpDir)
        /\ UNCHANGED rmFailed
     \/ /\ rmFailed' = rmFailed \cup {tmpDir}
        /\ UNCHANGED tmpDirs
  /\ pc' = "returned"
  /\ tmpDir' = 0
  /\ scratch' = <<>>
  /\ actualPdf' = <<>>
  /\ pageCount' = 1
  /\ outputFiles' = <<>>
  /\ resizeAt' = 0
  /\ err' = ""
  /\ UNCHANGED << exitCode, exitReason, parseVars, tree, stale, mainVars, outDirMade,
                  subDirs, jpgs, nextTmp, result, logVars >>

convertFile ==
  \/ ConvMkdir
  \/ ConvMkdtemp
  \/ ConvLibreOffice
  \/ ConvLocatePdf
  \/ ConvPageCount
  \/ ConvPdftoppm
  \/ ConvCollect
  \/ ConvResize
  \/ ConvReturn
  \/ ConvCatch
  \/ ConvFinally

(* -------------------------------- main --------------------------------- *)

\* results.push(result), then the two branches of if (result.error); the
\* success branch reads result.outputFiles[0], and path.dirname(undefined)
\* throws
RecordResult ==
  /\ pc = "returned"
  /\ results' = Append(results, result)
  /\ result' = NoResult
  /\ written' = {}
  /\ IF result.error # ""
       THEN /\ errorCount' = errorCount + 1
            /\ fi' = fi + 1
            /\ pc' = "loop"
            /\ UNCHANGED << exitCode, exitReason, successCount >>
     ELSE IF Len(result.outputFiles) = 0
       THEN /\ Crash("main threw")
            /\ UNCHANGED << fi, successCount, errorCount >>
     ELSE /\ successCount' = successCount + 1
          /\ fi' = fi + 1
          /\ pc' = "loop"
          /\ UNCHANGED << exitCode, exitReason, errorCount >>
  /\ UNCHANGED << parseVars, tree, stale, rmFailed, files, fsVars, tmpDir, scratch, actualPdf,
                  pageCount, outputFiles, resizeAt, err, handed, produced, spawned >>

\* results.reduce((sum, r) => sum + r.pages, 0)
RECURSIVE totalJpgs(_)
totalJpgs(rs) == IF rs = <<>> THEN 0 ELSE Head(rs).pages + totalJpgs(Tail(rs))

\* the loop is over: the summary is printed, main returns and the process
\* ends with code 0
Summary ==
  /\ pc = "loop"
  /\ fi > Len(files)
  /\ Exit(0, "summary")
  /\ UNCHANGED << parseVars, tree, stale, rmFailed, mainVars, fsVars, cfVars, logVars >>

main ==
  \/ checkDependencies
  \/ ValidateInputPath
  \/ CollectThrows
  \/ CollectWordFiles
  \/ NoFilesFound
  \/ CreateOutputDir
  \/ CallConvertFile
  \/ RecordResult
  \/ Summary

Next == parseArgs \/ main \/ convertFile

Spec == Init /\ [][Next]_vars

(* ------------------- the --resize value on its own --------------------- *)

RawChars == {"0", "1", "2", "x", "X", "×", "a", "-"}

RawValues == UNION {[1..n -> RawChars] : n \in 0..MaxRaw}

\* the argument list is -s followed by one value, or by nothing
InitResize ==
  /\ pc = "parseArgs"
  /\ args \in {<<Str_s>>} \cup {<<Str_s, raw>> : raw \in RawValues}
  /\ i = 1
  /\ tree = CwdTree
  /\ jpgs = [b \in WorldBaseNames |-> {}]
  /\ stale = jpgs
  /\ InitIdle

NextResize == ParseResize \/ ParseReturn

SpecResize == InitResize /\ [][NextResize]_vars

(* ---------------------- collectWordFiles on its own -------------------- *)

Name_dotdocx == <<".", "d", "o", "c", "x">>
Name_bak == <<"c", ".", "d", "o", "c", "x", ".", "b", "a", "k">>
Name_link == <<"l", ".", "d", "o", "c", "x">>
Name_sub == <<"s", "u", "b">>
Name_dirdocx == <<"d", ".", "d", "o", "c", "x">>

\* the order in which readdirSync lists the names of a directory
NameOrder ==
  << Name_dotdocx, Name_Adocx, Name_ADOTM, Name_bak, Name_dirdocx, Name_link,
     Name_notes, Name_sub >>

\* the entries of the set S, which have different names, in NameOrder
RECURSIVE Listed(_, _)
Listed(S, n) ==
  IF n > Len(NameOrder) THEN <<>>
  ELSE LET here == {e \in S : e.name = NameOrder[n]}
       IN  (IF here = {} THEN <<>> ELSE <<CHOOSE e \in here : TRUE>>)
             \o Listed(S, n + 1)

\* regular files and one entry that is neither file nor directory
Leaves ==
  {File(n) : n \in {Name_dotdocx, Name_Adocx, Name_ADOTM, Name_bak, Name_notes}}
    \cup {Other(Name_link)}

Few(S, n) == {T \in SUBSET S : Cardinality(T) <= n}

\* a nested directory holds one entry fewer than the input directory may
FlatSets == Few(Leaves, MaxEntries - 1)

\* nothing, or the directory name with each of the listings
DirChoices(name, sets) == {{}} \cup {{Dir(name, Listed(S, 1))} : S \in sets}

\* directories of files and at most one directory of files
NestedSets ==
  {N \in {L \cup D : L \in FlatSets, D \in DirChoices(Name_dirdocx, FlatSets)} :
     Cardinality(N) <= MaxEntries - 1}

\* the input directory: files, a directory sub that may hold files and a
\* directory of files, and a directory d.docx of at most one file
IsInputTree(listing) ==
  \E L \in Few(Leaves, MaxEntries), D \in DirChoices(Name_sub, NestedSets),
     E \in DirChoices(Name_dirdocx, Few(Leaves, 1)) :
       /\ Cardinality(L \cup D \cup E) <= MaxEntries
       /\ listing = Listed(L \cup D \cup E, 1)

InitCollect ==
  /\ pc = "collectWordFiles"
  /\ args = <<>>
  /\ i = 0
  /\ IsInputTree(tree)
  /\ \E recursive \in BOOLEAN :
       config = [DefaultConfig EXCEPT !.recursive = recursive]
  /\ jpgs = [b \in WorldBaseNames |-> {}]
  /\ stale = jpgs
  /\ exitCode = -1
  /\ exitReason = ""
  /\ files = <<>>
  /\ fi = 0
  /\ results = <<>>
  /\ successCount = 0
  /\ errorCount = 0
  /\ outDirMade = FALSE
  /\ subDirs = {}
  /\ tmpDirs = {}
  /\ nextTmp = 1
  /\ tmpDir = 0
  /\ scratch = <<>>
  /\ actualPdf = <<>>
  /\ pageCount = 1
  /\ outputFiles = <<>>
  /\ resizeAt = 0
  /\ err = ""
  /\ result = NoResult
  /\ handed = <<>>
  /\ written = {}
  /\ produced = {}
  /\ spawned = {}
  /\ rmFailed = {}

NextCollect == CollectWordFiles \/ CollectThrows

SpecCollect == InitCollect /\ [][NextCollect]_vars

(* ------------------------------- claims -------------------------------- *)

\* the scratch directory of the document convertFile has just left
lastTmp == nextTmp - 1

StepFailures ==
  { "LibreOffice error", "No PDF file found after LibreOffice conversion.",
    "pdftoppm error", "ImageMagick resize error" }

\* C2: a failing pipeline step (converter, missing PDF, rasterizer, resizer)
\* ends in the catch clause, convertFile returns pages = 0, no output file
\* and a non-empty error, main counts the document as failed and goes back
\* to the loop, where the next document's conversion starts.
C2_FailureIsolated ==
  [][ /\ (err = "" /\ err' # "") => pc' = "catch"
      /\ (pc = "catch" /\ err \in StepFailures) =>
           /\ pc' = "finally"
           /\ result'.source = filePath
           /\ result'.pages = 0
           /\ result'.outputFiles = <<>>
           /\ result'.error # ""
      /\ (pc = "finally" /\ result.error \in StepFailures) =>
           /\ pc' = "returned"
           /\ result' = result
      /\ (pc = "returned" /\ result.error \in StepFailures) =>
           /\ results' = Append(results, result)
           /\ errorCount' = errorCount + 1
           /\ successCount' = successCount
           /\ exitCode' = -1
           /\ pc' = "loop"
           /\ fi' = fi + 1
      /\ (pc = "loop" /\ fi <= Len(files)) => pc' = "cf_mkdirSync"
    ]_vars

\* C2 witness: the resizer failed for the first document, it is counted as
\* failed, and the conversion of the second has started.
C2_Witness ==
  /\ pc = "cf_mkdirSync"
  /\ fi = 2
  /\ results[1].error = "ImageMagick resize error"
  /\ results[1].pages = 0
  /\ errorCount = 1

\* C3, as stated: once the conversion loop has been entered the process
\* ends with code 0, after the summary.
C3_ExitZeroOnceLoopEntered ==
  (pc = "exited" /\ fi >= 1) => (exitCode = 0 /\ exitReason = "summary")

\* C4: a run that ends before the conversion loop starts (fatal pre-flight
\* condition, exception, help, or no document found) has created no output
\* directory, no output subdirectory and no scratch directory, has written
\* no JPEG and has invoked no conversion tool.
C4_NothingBeforeLoop ==
  (pc = "exited" /\ fi = 0) =>
    /\ ~outDirMade
    /\ subDirs = {}
    /\ tmpDirs = {}
    /\ nextTmp = 1
    /\ jpgs = stale
    /\ produced = {}
    /\ spawned = {}

\* C4 witness: a resize is requested, the resizer is missing, exit code 1.
C4_Witness ==
  /\ pc = "exited"
  /\ exitReason = "convert"
  /\ exitCode = 1
  /\ config.resize.on
  /\ ~outDirMade

HelpIn(list) == \E n \in 1..Len(list) : list[n] \in HelpFlags

\* C5, as stated: with the help flag anywhere in the argument list the
\* process ends with code 0 at the usage text: it never ends otherwise, and
\* the parser never gets to the end of the list.
C5_HelpAlwaysWins ==
  HelpIn(args) =>
    IF pc = "exited" THEN exitCode = 0 /\ exitReason = "help"
    ELSE pc = "parseArgs" /\ i <= Len(args)

\* <positive-int><separator><positive-int>, read off the specification
IsPositivePattern(raw) ==
  \E p \in 2..(Len(raw) - 1) :
    /\ raw[p] \in {"x", "X", "×"}
    /\ AllDigits(SubSeq(raw, 1, p - 1))
    /\ AllDigits(SubSeq(raw, p + 1, Len(raw)))
    /\ DecimalValue(SubSeq(raw, 1, p - 1)) > 0
    /\ DecimalValue(SubSeq(raw, p + 1, Len(raw))) > 0

WidthOf(raw) ==
  LET p == CHOOSE q \in 1..Len(raw) : raw[q] \in {"x", "X", "×"}
  IN  DecimalValue(SubSeq(raw, 1, p - 1))

HeightOf(raw) ==
  LET p == CHOOSE q \in 1..Len(raw) : raw[q] \in {"x", "X", "×"}
  IN  DecimalValue(SubSeq(raw, p + 1, Len(raw)))

\* C7, as stated: a -s/--resize value of the form <positive-int>x<positive-int>
\* sets the resize width and height to the two integers; any other value
\* (a zero dimension, an empty or a missing value included) ends the process
\* with code 1 and the configuration is left alone.
C7_ResizeParsing ==
  [][ (pc = "parseArgs" /\ i <= Len(args) /\ args[i] \in ResizeFlags) =>
        IF ArgAt(i + 1) # undefined /\ IsPositivePattern(ArgAt(i + 1))
          THEN /\ pc' = "parseArgs"
               /\ config'.resize =
                    [on |-> TRUE, width |-> WidthOf(ArgAt(i + 1)),
                     height |-> HeightOf(ArgAt(i + 1))]
          ELSE /\ pc' = "exited"
               /\ exitCode' = 1
               /\ config' = config
    ]_vars

\* C8, as stated: the rasterizer is handed <basename>.pdf whenever the
\* scratch directory holds it, and the first .pdf of the directory scan only
\* when it does not.
C8_ExpectedPdfHanded ==
  pc = "cf_readdirSync" =>
    handed = IF pdfFile \in Range(scratch) THEN pdfFile ELSE FilterPdf(scratch)[1]

\* C9, as stated: at most one scratch directory of the run exists at any
\* moment, the results are those of the collected documents in order, and a
\* run that entered the loop has converted every collected document once.
C9_OneAtATimeEachOnce ==
  /\ Cardinality(tmpDirs) <= 1
  /\ Len(results) <= Len(files)
  /\ \A n \in 1..Len(results) : results[n].source = files[n]
  /\ (pc = "exited" /\ fi >= 1) => Len(results) = Len(files)

\* the pages of the JPEG files named in a list
PagesOf(list) == Range(list)

\* C10, as stated: a successful result lists exactly the JPEG files the
\* rasterizer wrote for that document in this run, and the total of the
\* summary is the number of distinct JPEG files the run produced.
C10_OnlyThisRunsFiles ==
  /\ (pc = "finally" /\ result.error = "") =>
       /\ PagesOf(result.outputFiles) = written
       /\ result.pages = Cardinality(written)
  /\ (pc = "exited" /\ exitReason = "summary") =>
       totalJpgs(results) = Cardinality(produced)

\* C10, amended: a successful result lists, in ascending order and once
\* each, every .jpg file of the document's output subdirectory: those the
\* rasterizer wrote for it, those an earlier run left there and those written
\* for a document of this run with the same base name; pages is their number,
\* so the total of the summary is at least the number of files listed.
C10_ListsWholeSubdirectory ==
  /\ (pc = "finally" /\ result.error = "") =>
       /\ PagesOf(result.outputFiles) =
            stale[basename] \cup {p \in 1..MaxPages : <<basename, p>> \in produced}
       /\ written \subseteq PagesOf(result.outputFiles)
       /\ result.pages = Cardinality(PagesOf(result.outputFiles))
       /\ \A a, b \in 1..Len(result.outputFiles) :
            a < b => result.outputFiles[a] < result.outputFiles[b]
  /\ (pc = "exited" /\ exitReason = "summary") =>
       totalJpgs(results) >=
         Cardinality(UNION {{<<basenameOf(results[n].source), p>> :
                               p \in PagesOf(results[n].outputFiles)} :
                            n \in 1..Len(results)})

\* C10 witness: a successful result that lists the page this document's
\* rasterization wrote and a page it did not write.
C10_Witness ==
  /\ pc = "finally"
  /\ result.error = ""
  /\ written = {1}
  /\ PagesOf(result.outputFiles) = {1, 2}

\* the paths of the regular files listed below dir: those of the listing,
\* and with deep those of every nested directory
RECURSIVE RegularFiles(_, _, _)
RegularFiles(dir, listing, deep) ==
  {dir \o <<listing[n].name>> : n \in {m \in 1..Len(listing) : listing[m].kind = "file"}}
    \cup (IF deep
            THEN UNION {RegularFiles(dir \o <<listing[n].name>>, listing[n].children, TRUE) :
                          n \in {m \in 1..Len(listing) : listing[m].kind = "dir"}}
            ELSE {})

\* the letters of a and b are the same, whatever their case
SameLetters(a, b) ==
  /\ Len(a) = Len(b)
  /\ \A n \in 1..Len(a) :
       \E pair \in { <<"d", "D">>, <<"o", "O">>, <<"c", "C">>, <<"x", "X">>,
                     <<"t", "T">>, <<"m", "M">> } :
         a[n] \in {pair[1], pair[2]} /\ b[n] \in {pair[1], pair[2]}

\* the name is a stem, a dot and docx or dotm in any case
HasWordExtension(name) ==
  \E d \in 2..Len(name) :
    /\ name[d] = "."
    /\ \A n \in (d + 1)..Len(name) : name[n] # "."
    /\ \/ SameLetters(SubSeq(name, d + 1, Len(name)), <<"d", "o", "c", "x">>)
       \/ SameLetters(SubSeq(name, d + 1, Len(name)), <<"d", "o", "t", "m">>)

EligibleFiles(listing, deep) ==
  {f \in RegularFiles(<<>>, listing, deep) : HasWordExtension(f[Len(f)])}

\* C6: for an input directory collectWordFiles returns, each once, exactly
\* the regular files with a .docx or .dotm extension in any case: those
\* directly in the directory when recursive is false, and then none of a
\* nested directory; those of the whole tree when recursive is true.
C6_CollectsExactlyEligible ==
  pc = "filesFound" =>
    /\ Range(files) = EligibleFiles(tree, config.recursive)
    /\ Cardinality(Range(files)) = Len(files)
    /\ ~config.recursive => \A n \in 1..Len(files) : Len(files[n]) = 1

\* C6 witness: a non-recursive collection that returns the top-level
\* documents and leaves out an eligible document of a nested directory.
C6_Witness ==
  /\ pc = "filesFound"
  /\ ~config.recursive
  /\ Len(files) = 2
  /\ EligibleFiles(tree, TRUE) # EligibleFiles(tree, FALSE)

====
